---- MODULE Spec2Model ----
(***************************************************************************)
(* Model of @umituz/react-native-exception: the exception lifecycle        *)
(* pipeline (capture, classify, store, sanitize/log, report, mark handled) *)
(* and the bounded in-memory store it maintains.                           *)
(*                                                                         *)
(* Data representation                                                     *)
(*   id         uuid string, modelled as a fresh natural number            *)
(*   message    string, modelled as a sequence of text chunks; a chunk is  *)
(*              a sensitive keyword ("password=", ...), a separator ("&",  *)
(*              " ") or other text without keyword or separator            *)
(*   stack      string, or NoStack for undefined                           *)
(*   context    object, modelled as a function from its keys to strings    *)
(*   timestamp  [isDate, t]: a Date object or, after JSON, its ISO string  *)
(*                                                                         *)
(* Asynchronous calls                                                      *)
(*   An async function runs to its next await in one step.  The backend    *)
(*   read and the backend write of logException and the response to the    *)
(*   request of reportException are steps of their own, so that other      *)
(*   calls interleave exactly at the suspension points of the code.  A     *)
(*   backend operation or a sink either completes or throws.  The          *)
(*   diagnostic console.warn / console.error calls inside catch blocks are *)
(*   counted (diagnostics) and do not themselves throw.                    *)
(***************************************************************************)
EXTENDS Integers, Sequences, FiniteSets, TLC

VARIABLES
    exceptions,            \* store: ExceptionEntity[], newest first
    lastError,             \* store: <<>> for null, <<e>> for a record
    errorCount,            \* store: lifetime counter
    nextId,                \* source of fresh ids (uuidv4), creation clock
    addsSinceClear,        \* history: addException calls since the last clear
    storage,               \* key-value backend, item '@exceptions'
    hasBackend,            \* whether a storage backend is present
    maxStoredExceptions,   \* ExceptionLogger.maxStoredExceptions
    config,                \* ExceptionReporter.config
    calls,                 \* in-flight and finished asynchronous calls
    arg,                   \* input of the pure classifier
    ret                    \* its result: <<>> before the call, <<b>> after

vars == <<exceptions, lastError, errorCount, nextId, addsSinceClear, storage,
          hasBackend, maxStoredExceptions, config, calls, arg, ret>>

\* ------------------------------------------------------------------ bounds

\* addException calls made in the store specification
MaxAdds == 102

\* records created in the specifications of the asynchronous calls
MaxCalls == 2

\* ------------------------------------------------------------------ entity

Severities == {"fatal", "error", "warning", "info"}

Categories == {"network", "validation", "authentication", "authorization",
               "business-logic", "system", "storage", "unknown"}

\* the value undefined (an absent property, an omitted option)
Undefined == "undefined"

NoStack == Undefined

Min(a, b) == IF a < b THEN a ELSE b

Max(a, b) == IF a > b THEN a ELSE b

\* createException(error, severity, category, context); id is the fresh uuid
\* and the creation time
createException(id, error, severity, category, context) ==
    [id        |-> id,
     message   |-> error.message,
     stack     |-> error.stack,
     severity  |-> severity,
     category  |-> category,
     context   |-> context,
     timestamp |-> [isDate |-> TRUE, t |-> id],
     handled   |-> FALSE,
     reported  |-> FALSE]

\* ------------------------------------------------------------------- store

PrependBug(e, list) == SubSeq(list \o <<e>>, 1, Min(Len(list) + 1, 100))

\* [exception, ...exceptions].slice(0, 100)
Prepend(e, list) == SubSeq(<<e>> \o list, 1, Min(Len(list) + 1, 100))

\* errorCount: get().errorCount + 1
NextErrorCount(list, count) == count + 1

SetHandledBug(ex, exceptionId) ==
    IF ex.id = exceptionId THEN [ex EXCEPT !.handled = TRUE, !.reported = FALSE]
    ELSE ex

\* ex.id === exceptionId ? { ...ex, handled: true } : ex
SetHandled(ex, exceptionId) ==
    IF ex.id = exceptionId THEN [ex EXCEPT !.handled = TRUE] ELSE ex

SetReportedBug(ex, exceptionId) == [ex EXCEPT !.reported = TRUE]

\* ex.id === exceptionId ? { ...ex, reported: true } : ex
SetReported(ex, exceptionId) ==
    IF ex.id = exceptionId THEN [ex EXCEPT !.reported = TRUE] ELSE ex

addException(exception) ==
    /\ exceptions' = Prepend(exception, exceptions)
    /\ lastError' = <<exception>>
    /\ errorCount' = NextErrorCount(exceptions, errorCount)
    /\ addsSinceClear' = addsSinceClear + 1

markAsHandledBug(exceptionId) ==
    /\ exceptions' = [i \in 1..Len(exceptions) |->
                         SetHandled(exceptions[i], exceptionId)]
    /\ lastError' = [i \in 1..Len(lastError) |->
                        SetHandled(lastError[i], exceptionId)]
    /\ UNCHANGED <<errorCount, addsSinceClear>>

markAsHandled(exceptionId) ==
    /\ exceptions' = [i \in 1..Len(exceptions) |->
                         SetHandled(exceptions[i], exceptionId)]
    /\ UNCHANGED <<lastError, errorCount, addsSinceClear>>

markAsReported(exceptionId) ==
    /\ exceptions' = [i \in 1..Len(exceptions) |->
                         SetReported(exceptions[i], exceptionId)]
    /\ UNCHANGED <<lastError, errorCount, addsSinceClear>>

clearExceptionsBug ==
    /\ exceptions' = <<>>
    /\ lastError' = <<>>
    /\ addsSinceClear' = 0
    /\ errorCount' = 0

\* set({ exceptions: [], lastError: null })
clearExceptions ==
    /\ exceptions' = <<>>
    /\ lastError' = <<>>
    /\ addsSinceClear' = 0
    /\ UNCHANGED errorCount

\* --------------------------------------------------------------- sanitizer

Mask == "***"

\* chunks that end a value run: the characters excluded by [^&\s]
Separators == {"&", " "}

\* the keyword a chunk spells, compared case-insensitively (the i flag)
LowerCase(chunk) ==
    CASE chunk \in {"password=", "PASSWORD="} -> "password="
      [] chunk \in {"token=", "Token="}       -> "token="
      [] chunk \in {"key=", "Key="}           -> "key="
      [] OTHER                                -> chunk

RECURSIVE DropRun(_)
\* the rest of the text after the longest run matching [^&\s]*
DropRun(text) ==
    IF text = <<>> \/ Head(text) \in Separators THEN text
    ELSE DropRun(Tail(text))

RECURSIVE Redact(_, _)
\* message.replace(/<keyword>[^&\s]*/gi, '<keyword>***')
Redact(text, keyword) ==
    IF text = <<>> THEN <<>>
    ELSE IF LowerCase(Head(text)) = keyword
         THEN <<keyword, Mask>> \o Redact(DropRun(Tail(text)), keyword)
         ELSE <<Head(text)>> \o Redact(Tail(text), keyword)

sanitizeMessage(message) ==
    Redact(Redact(Redact(message, "password="), "token="), "key=")

SensitiveFields == {"password", "token", "apiKey", "secret"}

\* JavaScript truthiness of a string or undefined value
Truthy(value) == value # "" /\ value # Undefined

sanitizeContextBug(context) ==
    [k \in DOMAIN context |->
        IF k \in {"password"} /\ Truthy(context[k]) THEN Mask ELSE context[k]]

sanitizeContext(context) ==
    [k \in DOMAIN context |->
        IF k \in SensitiveFields /\ Truthy(context[k]) THEN Mask ELSE context[k]]

sanitizeException(exception) ==
    [exception EXCEPT !.message = sanitizeMessage(exception.message),
                      !.context = sanitizeContext(exception.context)]

\* -------------------------------------------------------------------- JSON

\* JSON.parse(JSON.stringify(record)): a Date becomes its ISO string; strings,
\* booleans and string-valued objects are kept; an undefined stack stays
\* undefined when read back
JsonRecord(record) == [record EXCEPT !.timestamp.isDate = FALSE]

JsonList(list) == [i \in 1..Len(list) |-> JsonRecord(list[i])]

\* ---------------------------------------------------------------- classifier

shouldReportExceptionBug(exception) ==
    IF exception.severity = "info" THEN FALSE
    ELSE IF exception.category = "validation" THEN FALSE
    ELSE TRUE

shouldReportException(exception) ==
    IF exception.severity = "warning" \/ exception.severity = "info" THEN FALSE
    ELSE IF exception.category = "validation" THEN FALSE
    ELSE TRUE

\* ------------------------------------------------------------------ reporter

\* record[name] in JavaScript: undefined when the object has no such property
Property(record, name) ==
    IF name \in DOMAIN record THEN record[name] ELSE Undefined

getConsoleLevel(severity) ==
    CASE severity \in {"fatal", "error"} -> "error"
      [] severity = "warning"            -> "warn"
      [] OTHER                           -> "log"

\* the arguments of console[level](...) in reportToConsole
ConsoleOutput(exception) ==
    [level    |-> getConsoleLevel(exception.severity),
     label    |-> <<exception.severity, exception.category>>,
     message  |-> exception.message,
     payload  |-> [id        |-> exception.id,
                   timestamp |-> exception.timestamp,
                   context   |-> exception.context,
                   stack     |-> Property(exception, "stackTrace")]]

\* the request fetch is called with in reportToExternalService; the body is
\* JSON text, so its Date is an ISO string and an undefined stackTrace is left
\* out (it reads back as undefined)
Request(exception, cfg) ==
    [url           |-> cfg.endpoint,
     authorization |-> IF Truthy(cfg.apiKey) THEN <<"Bearer", cfg.apiKey>>
                       ELSE <<>>,
     body |-> [id          |-> exception.id,
               message     |-> exception.message,
               severity    |-> exception.severity,
               category    |-> exception.category,
               timestamp   |-> [exception.timestamp EXCEPT !.isDate = FALSE],
               context     |-> exception.context,
               stackTrace  |-> Property(exception, "stackTrace"),
               environment |-> cfg.environment]]

ReportCaughtBug(c) ==
    [c EXCEPT !.reportOutcome = "rejected", !.pc = "reported"]

\* catch (error) { console.warn(...); return false; }
ReportCaught(c) ==
    [c EXCEPT !.diagnostics = @ + 1, !.result = <<FALSE>>,
              !.reportOutcome = "resolved", !.pc = "reported"]

ReportReturn(c, value) ==
    [c EXCEPT !.result = <<value>>, !.reportOutcome = "resolved",
              !.pc = "reported"]

\* reportToConsole, or the catch block when the sink throws
ReportToConsole(c, exception, sinkThrows) ==
    IF sinkThrows THEN ReportCaught([c EXCEPT !.sinkThrew = TRUE])
    ELSE ReportReturn(
             [c EXCEPT !.console = Append(@, ConsoleOutput(exception))], TRUE)

ReportBeginBug(c, exception, cfg, sinkThrows) ==
    IF cfg.environment = "development"
    THEN ReportToConsole([c EXCEPT !.seen = <<cfg>>], exception, sinkThrows)
    ELSE IF ~cfg.enabled THEN ReportReturn([c EXCEPT !.seen = <<cfg>>], FALSE)
    ELSE IF Truthy(cfg.endpoint)
    THEN [c EXCEPT !.seen = <<cfg>>,
                   !.requests = Append(@, Request(exception, cfg)),
                   !.pc = "report_wait"]
    ELSE ReportReturn([c EXCEPT !.seen = <<cfg>>], FALSE)

\* reportException up to its first suspension: the result, or the request
\* sent; seen is the configuration the call read
ReportBegin(c, exception, cfg, sinkThrows) ==
    IF ~cfg.enabled THEN ReportReturn([c EXCEPT !.seen = <<cfg>>], FALSE)
    ELSE IF cfg.environment = "development"
    THEN ReportToConsole([c EXCEPT !.seen = <<cfg>>], exception, sinkThrows)
    ELSE IF Truthy(cfg.endpoint)
    THEN [c EXCEPT !.seen = <<cfg>>,
                   !.requests = Append(@, Request(exception, cfg)),
                   !.pc = "report_wait"]
    ELSE ReportReturn([c EXCEPT !.seen = <<cfg>>], FALSE)

ReportEndBug(c, response) ==
    IF response = "rejects"
    THEN [c EXCEPT !.response = response, !.reportOutcome = "rejected",
                   !.pc = "reported"]
    ELSE ReportReturn([c EXCEPT !.response = response], response = "ok")

\* the rest of reportToExternalService: return response.ok, or fetch rejected
ReportEnd(c, response) ==
    IF response = "rejects" THEN ReportCaught([c EXCEPT !.response = response])
    ELSE ReportReturn([c EXCEPT !.response = response], response = "ok")

\* { ...this.config, ...config }
MergeConfig(cfg, partial) ==
    [k \in DOMAIN cfg |-> IF k \in DOMAIN partial THEN partial[k] ELSE cfg[k]]

\* -------------------------------------------------------------------- logger

\* getStorageItem: the stored text when a backend is present, null otherwise
getStorageItem == IF hasBackend THEN storage ELSE [kind |-> "null", list |-> <<>>]

\* getStoredExceptions: stored ? JSON.parse(stored) : [], and [] when the read
\* or the parse throws
StoredExceptions(readThrows) ==
    IF readThrows \/ getStorageItem.kind = "garbage" THEN <<>>
    ELSE getStorageItem.list

\* whether getStoredExceptions went through its catch block
ReadCaught(readThrows) ==
    readThrows \/ getStorageItem.kind = "garbage"

UnshiftBug(list, record) == Append(list, record)

\* existingExceptions.unshift(sanitizedException)
Unshift(list, record) == <<record>> \o list

TruncateBug(list, limit) ==
    IF Len(list) >= limit THEN SubSeq(list, 1, limit - 1) ELSE list

\* if (length > maxStoredExceptions) splice(maxStoredExceptions)
Truncate(list, limit) ==
    IF Len(list) > limit THEN SubSeq(list, 1, limit) ELSE list

\* setStorageItem(key, JSON.stringify(list)) that does not throw
Written(list) ==
    IF hasBackend THEN [kind |-> "json", list |-> JsonList(list)] ELSE storage

LogSettledBug(c, threw) ==
    [c EXCEPT !.writeFailed = threw,
              !.logOutcome = IF threw THEN "rejected" ELSE "resolved"]

\* logException settles: try { ... } catch (error) { console.error(...) }
LogSettled(c, threw) ==
    [c EXCEPT !.writeFailed = threw,
              !.diagnostics = IF threw THEN @ + 1 ELSE @,
              !.logOutcome = "resolved"]

\* Math.max(1, limit)
ClampLimit(limit) == Max(1, limit)

\* ------------------------------------------------------------ initial state

EmptyContext == [k \in {} |-> ""]

\* reporterConfig || { enabled: false, environment: 'development' }
NoEndpoint == Undefined

NoApiKey == Undefined

DefaultConfig ==
    [enabled |-> FALSE, endpoint |-> NoEndpoint, apiKey |-> NoApiKey,
     environment |-> "development"]

\* the concurrent asynchronous calls the model follows
Slots == {1, 2}

IdleCall ==
    [kind |-> "none", pc |-> "idle", exception |-> <<>>, sanitized |-> <<>>,
     existing |-> <<>>, readFailed |-> FALSE, writeFailed |-> FALSE,
     interleaved |-> FALSE, shouldReport |-> <<>>, result |-> <<>>,
     seen |-> <<>>, sinkThrew |-> FALSE, response |-> "none",
     requests |-> <<>>, console |-> <<>>, diagnostics |-> 0,
     returned |-> <<>>, logOutcome |-> "none", reportOutcome |-> "none",
     outcome |-> "none"]

NullItem == [kind |-> "null", list |-> <<>>]

NoArg == createException(0, [message |-> <<>>, stack |-> NoStack],
                         "info", "unknown", EmptyContext)

InitStore ==
    /\ exceptions = <<>>
    /\ lastError = <<>>
    /\ errorCount = 0
    /\ nextId = 1
    /\ addsSinceClear = 0

InitRest ==
    /\ storage = NullItem
    /\ hasBackend = TRUE
    /\ maxStoredExceptions = 100
    /\ config = DefaultConfig
    /\ calls = [p \in Slots |-> IdleCall]
    /\ arg = NoArg
    /\ ret = <<>>

\* ------------------------------------------------- the store, called directly

PlainError == [message |-> <<"boom">>, stack |-> NoStack]

\* ids passed to markAsHandled / markAsReported: one that is never added, the
\* first two records, and the record whose insertion evicts the first
MarkIds == {0, 1, 2, 101}

StoreAdd ==
    /\ errorCount < MaxAdds
    /\ addException(createException(nextId, PlainError, "error", "unknown",
                                    EmptyContext))
    /\ nextId' = nextId + 1
    /\ UNCHANGED <<storage, hasBackend, maxStoredExceptions, config, calls,
                   arg, ret>>

StoreMarkHandled ==
    /\ \E id \in MarkIds : markAsHandled(id)
    /\ UNCHANGED <<nextId, storage, hasBackend, maxStoredExceptions, config,
                   calls, arg, ret>>

StoreMarkReported ==
    /\ \E id \in MarkIds : markAsReported(id)
    /\ UNCHANGED <<nextId, storage, hasBackend, maxStoredExceptions, config,
                   calls, arg, ret>>

StoreClear ==
    /\ clearExceptions
    /\ UNCHANGED <<nextId, storage, hasBackend, maxStoredExceptions, config,
                   calls, arg, ret>>

InitStoreSpec == InitStore /\ InitRest

NextStore == StoreAdd \/ StoreMarkHandled \/ StoreMarkReported \/ StoreClear

SpecStore == InitStoreSpec /\ [][NextStore]_vars

\* ----------------------------------------------------- asynchronous calls

SecretError ==
    [message |-> <<"login", " ", "failed:", " ", "password=", "abc123", "&",
                   "user=bob">>,
     stack   |-> "Error: login failed at signIn"]

TokenContext == ("token" :> "xyz") @@ ("userId" :> "42")

\* a slot is free for a new call before its first call and after a call ended
Free(p) == calls[p].pc \in {"idle", "done"}

\* the calls after slot p moves to c
With(p, c) == [q \in Slots |-> IF q = p THEN c ELSE calls[q]]

\* the calls after slot p does a persistence step: a logException call that is
\* between its start and its write has been interleaved with
WithPersistence(p, c) ==
    [q \in Slots |->
        IF q = p THEN c
        ELSE IF calls[q].pc \in {"log_read", "log_write"}
             THEN [calls[q] EXCEPT !.interleaved = TRUE]
             ELSE calls[q]]

\* outcomes of a backend operation: without a backend nothing can throw
Throws == IF hasBackend THEN BOOLEAN ELSE {FALSE}

\* the call has settled: a direct call ends, a pipeline goes on
Settle(c, kind, outcome) ==
    IF c.kind = kind THEN [c EXCEPT !.pc = "done", !.outcome = outcome] ELSE c

\* ExceptionService.handleException up to its first suspension: create the
\* record, add it to the store, enter logger.logException (sanitize)
HandleException(p, error, severity, category, context) ==
    /\ Free(p)
    /\ nextId <= MaxCalls
    /\ LET exception == createException(nextId, error, severity, category,
                                        context)
       IN  /\ addException(exception)
           /\ calls' = With(p, [IdleCall EXCEPT
                                   !.kind = "handle", !.pc = "log_read",
                                   !.exception = <<exception>>,
                                   !.sanitized = <<sanitizeException(exception)>>])
    /\ nextId' = nextId + 1
    /\ UNCHANGED <<storage, hasBackend, maxStoredExceptions, config, arg, ret>>

\* ExceptionLogger.logException called directly, up to its first suspension
LogException(p, error, severity, category, context) ==
    /\ Free(p)
    /\ nextId <= MaxCalls
    /\ LET exception == createException(nextId, error, severity, category,
                                        context)
       IN  calls' = With(p, [IdleCall EXCEPT
                                !.kind = "log", !.pc = "log_read",
                                !.exception = <<exception>>,
                                !.sanitized = <<sanitizeException(exception)>>])
    /\ nextId' = nextId + 1
    /\ UNCHANGED <<exceptions, lastError, errorCount, addsSinceClear, storage,
                   hasBackend, maxStoredExceptions, config, arg, ret>>

\* logException: await this.getStoredExceptions()
LogRead(p) ==
    /\ calls[p].pc = "log_read"
    /\ \E readThrows \in Throws :
          calls' = WithPersistence(p, [calls[p] EXCEPT
                      !.existing = StoredExceptions(readThrows),
                      !.readFailed = ReadCaught(readThrows),
                      !.diagnostics = IF ReadCaught(readThrows) THEN @ + 1 ELSE @,
                      !.pc = "log_write"])
    /\ UNCHANGED <<exceptions, lastError, errorCount, nextId, addsSinceClear,
                   storage, hasBackend, maxStoredExceptions, config, arg, ret>>

\* logException: unshift, limit, await this.setStorageItem(...), settle
LogWrite(p) ==
    /\ calls[p].pc = "log_write"
    /\ \E writeThrows \in Throws :
          LET list == Truncate(Unshift(calls[p].existing, calls[p].sanitized[1]),
                               maxStoredExceptions)
              settled == LogSettled([calls[p] EXCEPT !.existing = list,
                                                     !.pc = "logged"],
                                    writeThrows)
          IN  /\ storage' = IF writeThrows THEN storage ELSE Written(list)
              /\ calls' = WithPersistence(p, Settle(settled, "log",
                                                    settled.logOutcome))
    /\ UNCHANGED <<exceptions, lastError, errorCount, nextId, addsSinceClear,
                   hasBackend, maxStoredExceptions, config, arg, ret>>

AfterLogBug(p) ==
    /\ calls[p].pc = "logged"
    /\ LET exception == calls[p].exception[1]
           decided == [calls[p] EXCEPT
                          !.shouldReport = <<shouldReportException(exception)>>]
       IN  /\ markAsHandled(exception.id)
           /\ IF shouldReportException(exception)
              THEN \E sinkThrows \in BOOLEAN :
                      calls' = With(p, ReportBegin(decided, exception, config,
                                                   sinkThrows))
              ELSE calls' = With(p, [decided EXCEPT !.pc = "done",
                                                    !.outcome = "resolved"])
    /\ UNCHANGED <<nextId, storage, hasBackend, maxStoredExceptions, config,
                   arg, ret>>

\* handleException after await logger.logException: report if needed (up to
\* the reporter's first suspension), else mark as handled
AfterLog(p) ==
    /\ calls[p].pc = "logged"
    /\ LET exception == calls[p].exception[1]
           decided == [calls[p] EXCEPT
                          !.shouldReport = <<shouldReportException(exception)>>]
       IN  IF calls[p].logOutcome = "rejected"
           THEN /\ calls' = With(p, [calls[p] EXCEPT !.pc = "done",
                                                     !.outcome = "rejected"])
                /\ UNCHANGED <<exceptions, lastError, errorCount, addsSinceClear>>
           ELSE IF shouldReportException(exception)
           THEN /\ \E sinkThrows \in BOOLEAN :
                      calls' = With(p, ReportBegin(decided, exception, config,
                                                   sinkThrows))
                /\ UNCHANGED <<exceptions, lastError, errorCount, addsSinceClear>>
           ELSE /\ markAsHandled(exception.id)
                /\ calls' = With(p, [decided EXCEPT !.pc = "done",
                                                    !.outcome = "resolved"])
    /\ UNCHANGED <<nextId, storage, hasBackend, maxStoredExceptions, config,
                   arg, ret>>

\* ExceptionReporter.reportException called directly
ReportException(p, error, severity, category, context) ==
    /\ Free(p)
    /\ nextId <= MaxCalls
    /\ LET exception == createException(nextId, error, severity, category,
                                        context)
           c == [IdleCall EXCEPT !.kind = "report", !.exception = <<exception>>]
       IN  \E sinkThrows \in BOOLEAN :
              LET begun == ReportBegin(c, exception, config, sinkThrows)
              IN  calls' = With(p, IF begun.pc = "reported"
                                   THEN Settle(begun, "report",
                                               begun.reportOutcome)
                                   ELSE begun)
    /\ nextId' = nextId + 1
    /\ UNCHANGED <<exceptions, lastError, errorCount, addsSinceClear, storage,
                   hasBackend, maxStoredExceptions, config, arg, ret>>

\* the response to the request of reportToExternalService arrives
ReportResponse(p) ==
    /\ calls[p].pc = "report_wait"
    /\ \E response \in {"ok", "notok", "rejects"} :
          LET ended == ReportEnd(calls[p], response)
          IN  calls' = With(p, Settle(ended, "report", ended.reportOutcome))
    /\ UNCHANGED <<exceptions, lastError, errorCount, nextId, addsSinceClear,
                   storage, hasBackend, maxStoredExceptions, config, arg, ret>>

\* handleException after await reporter.reportException: mark as handled
AfterReport(p) ==
    /\ calls[p].pc = "reported"
    /\ calls[p].kind = "handle"
    /\ IF calls[p].reportOutcome = "rejected"
       THEN /\ calls' = With(p, [calls[p] EXCEPT !.pc = "done",
                                                 !.outcome = "rejected"])
            /\ UNCHANGED <<exceptions, lastError, errorCount, addsSinceClear>>
       ELSE /\ markAsHandled(calls[p].exception[1].id)
            /\ calls' = With(p, [calls[p] EXCEPT !.pc = "done",
                                                 !.outcome = "resolved"])
    /\ UNCHANGED <<nextId, storage, hasBackend, maxStoredExceptions, config,
                   arg, ret>>

\* ExceptionLogger.getStoredExceptions called directly
GetStoredExceptions(p) ==
    /\ Free(p)
    /\ \E readThrows \in Throws :
          calls' = WithPersistence(p, [IdleCall EXCEPT
                      !.kind = "get", !.pc = "done",
                      !.returned = <<StoredExceptions(readThrows)>>,
                      !.readFailed = ReadCaught(readThrows),
                      !.diagnostics = IF ReadCaught(readThrows) THEN 1 ELSE 0,
                      !.outcome = "resolved"])
    /\ UNCHANGED <<exceptions, lastError, errorCount, nextId, addsSinceClear,
                   storage, hasBackend, maxStoredExceptions, config, arg, ret>>

\* ExceptionLogger.clearStoredExceptions
ClearStoredExceptions(p) ==
    /\ Free(p)
    /\ \E writeThrows \in Throws :
          /\ storage' = IF writeThrows THEN storage ELSE Written(<<>>)
          /\ calls' = WithPersistence(p, [IdleCall EXCEPT
                         !.kind = "clear", !.pc = "done",
                         !.writeFailed = writeThrows,
                         !.diagnostics = IF writeThrows THEN 1 ELSE 0,
                         !.outcome = "resolved"])
    /\ UNCHANGED <<exceptions, lastError, errorCount, nextId, addsSinceClear,
                   hasBackend, maxStoredExceptions, config, arg, ret>>

\* ExceptionLogger.setMaxStoredExceptions
SetMaxStoredExceptions(limit) ==
    /\ maxStoredExceptions' = ClampLimit(limit)
    /\ UNCHANGED <<exceptions, lastError, errorCount, nextId, addsSinceClear,
                   storage, hasBackend, config, calls, arg, ret>>

\* ExceptionReporter.updateConfig
UpdateConfig(partial) ==
    /\ config' = MergeConfig(config, partial)
    /\ UNCHANGED <<exceptions, lastError, errorCount, nextId, addsSinceClear,
                   storage, hasBackend, maxStoredExceptions, calls, arg, ret>>

\* ExceptionService.clearExceptions
ServiceClearExceptions ==
    /\ clearExceptions
    /\ UNCHANGED <<nextId, storage, hasBackend, maxStoredExceptions, config,
                   calls, arg, ret>>

\* ------------------------------------------------------------- the service

\* what the host application reports: handleNetworkError(error, context) of a
\* failed sign-in, handleValidationError(error) of a plain error
ServiceInputs ==
    {[error |-> SecretError, context |-> TokenContext,
      severity |-> "error", category |-> "network"],
     [error |-> PlainError, context |-> EmptyContext,
      severity |-> "warning", category |-> "validation"]}

\* new ExceptionService(reporterConfig?)
ServiceConfigs ==
    {DefaultConfig,
     [DefaultConfig EXCEPT !.enabled = TRUE],
     [DefaultConfig EXCEPT !.enabled = TRUE, !.environment = "production",
                           !.endpoint = "https://collector"]}

InitService ==
    /\ InitStore
    /\ storage = NullItem
    /\ hasBackend = TRUE
    /\ maxStoredExceptions = 100
    /\ config \in ServiceConfigs
    /\ calls = [p \in Slots |-> IdleCall]
    /\ arg = NoArg
    /\ ret = <<>>

NextService ==
    \/ \E p \in Slots, input \in ServiceInputs :
          HandleException(p, input.error, input.severity, input.category,
                          input.context)
    \/ \E p \in Slots : LogRead(p)
    \/ \E p \in Slots : LogWrite(p)
    \/ \E p \in Slots : AfterLog(p)
    \/ \E p \in Slots : ReportResponse(p)
    \/ \E p \in Slots : AfterReport(p)
    \/ \E p \in Slots : GetStoredExceptions(p)
    \/ \E p \in Slots : ClearStoredExceptions(p)
    \/ ServiceClearExceptions

SpecService == InitService /\ [][NextService]_vars

\* -------------------------------------------------- the logger, called directly

KeyError ==
    [message |-> <<"GET", " ", "/v1?api", "Key=", "k1", "&", "Token=", "t1">>,
     stack   |-> "Error: request failed at get"]

MixedContext ==
    ("password" :> "") @@ ("secret" :> "s3") @@ ("apiKey" :> "k1")
        @@ ("screen" :> "Home")

LoggerInputs ==
    {[error |-> SecretError, context |-> TokenContext],
     [error |-> PlainError, context |-> EmptyContext],
     [error |-> KeyError, context |-> MixedContext]}

\* arguments of setMaxStoredExceptions
Limits == {0, 1, 2}

\* text under '@exceptions' that JSON.parse rejects
GarbageItem == [kind |-> "garbage", list |-> <<>>]

InitLogger ==
    /\ InitStore
    /\ storage \in {NullItem, GarbageItem}
    /\ hasBackend \in BOOLEAN
    /\ maxStoredExceptions = 100
    /\ config = DefaultConfig
    /\ calls = [p \in Slots |-> IdleCall]
    /\ arg = NoArg
    /\ ret = <<>>

NextLogger ==
    \/ \E p \in Slots, input \in LoggerInputs :
          LogException(p, input.error, "error", "unknown", input.context)
    \/ \E p \in Slots : LogRead(p)
    \/ \E p \in Slots : LogWrite(p)
    \/ \E p \in Slots : GetStoredExceptions(p)
    \/ \E p \in Slots : ClearStoredExceptions(p)
    \/ \E limit \in Limits : SetMaxStoredExceptions(limit)

SpecLogger == InitLogger /\ [][NextLogger]_vars

\* ------------------------------------------------ the reporter, called directly

ReporterPartials ==
    {("enabled" :> TRUE), ("enabled" :> FALSE),
     ("environment" :> "development"), ("environment" :> "staging"),
     ("environment" :> "production"),
     ("endpoint" :> Undefined), ("endpoint" :> ""),
     ("endpoint" :> "https://collector"),
     ("apiKey" :> Undefined), ("apiKey" :> "k1")}

\* reportException calls share no mutable state: they are followed one at a
\* time, each with updateConfig calls around it and while it waits
ReporterSlots == {1}

InitReporter == InitStore /\ InitRest

NextReporter ==
    \/ \E p \in ReporterSlots, input \in ServiceInputs,
          severity \in Severities :
          ReportException(p, input.error, severity, input.category,
                          input.context)
    \/ \E p \in ReporterSlots : ReportResponse(p)
    \/ \E partial \in ReporterPartials : UpdateConfig(partial)

SpecReporter == InitReporter /\ [][NextReporter]_vars

\* ------------------------------------------------ the classifier, on its own

ClassifierInputs ==
    {[createException(1, input.error, severity, category, input.context)
         EXCEPT !.handled = handled, !.reported = reported] :
        input \in ServiceInputs, severity \in Severities,
        category \in Categories, handled \in BOOLEAN, reported \in BOOLEAN}

InitClassify ==
    /\ InitStore
    /\ storage = NullItem
    /\ hasBackend = TRUE
    /\ maxStoredExceptions = 100
    /\ config = DefaultConfig
    /\ calls = [p \in Slots |-> IdleCall]
    /\ arg \in ClassifierInputs
    /\ ret = <<>>

Classify ==
    /\ ret = <<>>
    /\ ret' = <<shouldReportException(arg)>>
    /\ UNCHANGED <<exceptions, lastError, errorCount, nextId, addsSinceClear,
                   storage, hasBackend, maxStoredExceptions, config, calls, arg>>

SpecClassify == InitClassify /\ [][Classify]_vars

\* ------------------------------------------------------------------ claims

\* C1: the store never holds more than 100 records; it holds the most recently
\* added records, newest first (the i-th record is the i-th newest addition,
\* overflow drops the oldest), and errorCount is the number of addException
\* calls ever made; after N > 100 adds with no clear exactly the 100 newest
\* are held.
C1_StoreBounded ==
    /\ Len(exceptions) <= 100
    /\ Len(exceptions) = Min(addsSinceClear, 100)
    /\ \A i \in 1..Len(exceptions) : exceptions[i].id = nextId - i
    /\ errorCount = nextId - 1

\* more than 100 adds without any clear: 100 held, the counter is N
C1_Witness ==
    /\ addsSinceClear > 100
    /\ errorCount = addsSinceClear
    /\ Len(exceptions) = 100
    /\ exceptions[100].id = errorCount - 99

\* C2: in every step, a record that stays in the list keeps every flag that
\* was true (it stays in place or moves down by one), and a record leaves the
\* list only by clearExceptions or by eviction from the tail of a full list.
C2_FlagsMonotone ==
    [][\A j \in 1..Len(exceptions) :
          LET k == IF j <= Len(exceptions') /\ exceptions'[j].id = exceptions[j].id
                   THEN j ELSE j + 1
          IN  IF k <= Len(exceptions') /\ exceptions'[k].id = exceptions[j].id
              THEN /\ exceptions[j].handled => exceptions'[k].handled
                   /\ exceptions[j].reported => exceptions'[k].reported
              ELSE \/ exceptions' = <<>>
                   \/ j = 100 /\ Len(exceptions') = 100]_vars

\* a record carrying both flags that later additions have moved down the list
C2_Witness ==
    \E i \in 2..Len(exceptions) :
        exceptions[i].handled /\ exceptions[i].reported

\* the records of the store with the id of the record call c captured
Held(c) ==
    {i \in 1..Len(exceptions) : exceptions[i].id = c.exception[1].id}

\* C3: when handleException has completed for a reportable record, the
\* reporter has returned and the record is still in the store, the record's
\* reported flag is true.  Stated for the calls whose reporter returned true
\* (the record was delivered), the case least open to doubt.
C3_ReportedWhenDone ==
    \A p \in Slots :
        (/\ calls[p].kind = "handle"
         /\ calls[p].pc = "done"
         /\ calls[p].outcome = "resolved"
         /\ calls[p].shouldReport = <<TRUE>>
         /\ calls[p].reportOutcome = "resolved"
         /\ calls[p].result = <<TRUE>>)
        => \A i \in Held(calls[p]) : exceptions[i].reported

\* every deny-listed key of the context carries the mask (or is empty)
Masked(context) ==
    \A k \in DOMAIN context \cap SensitiveFields : context[k] \in {Mask, ""}

\* C4: whatever handleException hands to the console sink or to the network
\* transport carries the sanitized message of the captured record and a
\* context whose deny-listed keys are masked.
C4_SinksGetSanitized ==
    \A p \in Slots :
        calls[p].kind = "handle" =>
            LET captured == calls[p].exception[1]
            IN  /\ \A i \in 1..Len(calls[p].console) :
                      /\ calls[p].console[i].message
                             = sanitizeMessage(captured.message)
                      /\ Masked(calls[p].console[i].payload.context)
                /\ \A i \in 1..Len(calls[p].requests) :
                      /\ calls[p].requests[i].body.message
                             = sanitizeMessage(captured.message)
                      /\ Masked(calls[p].requests[i].body.context)

\* C5: every record in the persisted blob is the sanitized projection of the
\* record logException was given, and no deny-listed context key of a
\* persisted record holds a non-empty value other than the mask.
C5_PersistedSanitized ==
    \A i \in 1..Len(storage.list) :
        /\ Masked(storage.list[i].context)
        /\ \A p \in Slots :
              (calls[p].exception # <<>>
                  /\ calls[p].exception[1].id = storage.list[i].id)
              => /\ storage.list[i].message
                        = sanitizeMessage(calls[p].exception[1].message)
                 /\ DOMAIN storage.list[i].context
                        = DOMAIN calls[p].exception[1].context
                 /\ \A k \in DOMAIN storage.list[i].context \ SensitiveFields :
                        storage.list[i].context[k]
                            = calls[p].exception[1].context[k]

\* a persisted record whose token was "xyz" and one whose password was empty
C5_Witness ==
    /\ \E i \in 1..Len(storage.list) :
          /\ "token" \in DOMAIN storage.list[i].context
          /\ storage.list[i].context["token"] = Mask
          /\ \E p \in Slots :
                /\ calls[p].exception # <<>>
                /\ calls[p].exception[1].id = storage.list[i].id
                /\ calls[p].exception[1].context["token"] = "xyz"
    /\ \E i \in 1..Len(storage.list) :
          /\ "password" \in DOMAIN storage.list[i].context
          /\ storage.list[i].context["password"] = ""

\* C6: shouldReportException is true exactly when severity is fatal or error
\* and category is not validation, whatever the other fields of the record.
C6_ShouldReport ==
    ret # <<>> =>
        /\ ret[1] = (arg.severity \in {"fatal", "error"}
                        /\ arg.category # "validation")
        /\ arg.severity \in {"warning", "info"} => ret[1] = FALSE
        /\ arg.category = "validation" => ret[1] = FALSE

\* a handled, reported error record of a category other than validation is
\* classified reportable
C6_Witness ==
    /\ ret = <<TRUE>>
    /\ arg.severity = "error"
    /\ arg.category = "storage"
    /\ arg.handled
    /\ arg.reported

\* the configuration call c read makes reportException use the transport
UsesTransport(c) ==
    /\ c.seen[1].enabled
    /\ c.seen[1].environment # "development"
    /\ c.seen[1].endpoint \notin {Undefined, ""}

\* C7: a reportException call sends a network request only when enabled,
\* outside development and with an endpoint, and then exactly one; otherwise
\* none; a disabled reporter performs no I/O at all.
C7_ReporterIO ==
    \A p \in Slots :
        calls[p].kind = "report" =>
            /\ Len(calls[p].requests) = IF UsesTransport(calls[p]) THEN 1 ELSE 0
            /\ ~calls[p].seen[1].enabled =>
                  /\ calls[p].console = <<>>
                  /\ calls[p].diagnostics = 0

\* one request is out (or answered) for a production reporter with an endpoint
C7_Witness ==
    \E p \in Slots :
        /\ calls[p].kind = "report"
        /\ calls[p].pc = "done"
        /\ calls[p].seen[1].environment = "production"
        /\ Len(calls[p].requests) = 1
        /\ calls[p].response = "ok"

\* C8: a reportException call that has settled has resolved, never rejected:
\* to false when disabled, to true in development, to the transport's
\* success value with an endpoint outside development, to false without an
\* endpoint, and to false when the console sink threw or the transport
\* rejected.
C8_ReporterResult ==
    \A p \in Slots :
        (calls[p].kind = "report" /\ calls[p].pc = "done") =>
            /\ calls[p].outcome = "resolved"
            /\ calls[p].result =
                  <<IF ~calls[p].seen[1].enabled THEN FALSE
                    ELSE IF calls[p].seen[1].environment = "development"
                    THEN ~calls[p].sinkThrew
                    ELSE IF calls[p].seen[1].endpoint \notin {Undefined, ""}
                    THEN calls[p].response = "ok"
                    ELSE FALSE>>

\* a call whose transport rejected resolved to false
C8_Witness ==
    \E p \in Slots :
        /\ calls[p].kind = "report"
        /\ calls[p].pc = "done"
        /\ calls[p].response = "rejects"
        /\ calls[p].result = <<FALSE>>
        /\ calls[p].outcome = "resolved"

\* C9: a logException call that no other persistence call interleaves with and
\* whose read and write do not fail leaves the blob equal to the sanitized
\* record (as JSON) put before the list persisted until then, cut from the tail
\* to the configured maximum; getStoredExceptions returns the persisted list,
\* so the new record comes first with its sanitized fields.
C9_LogPrepends ==
    [][/\ \A p \in Slots :
             (/\ calls[p].pc = "log_write"
              /\ calls'[p].pc # "log_write"
              /\ hasBackend
              /\ ~calls[p].interleaved
              /\ ~calls[p].readFailed
              /\ ~calls'[p].writeFailed)
             => LET captured == calls[p].exception[1]
                    whole == <<JsonRecord(sanitizeException(captured))>>
                                 \o storage.list
                IN  /\ storage'.kind = "json"
                    /\ storage'.list
                          = SubSeq(whole, 1, Min(Len(whole), maxStoredExceptions))
                    /\ storage'.list[1].id = captured.id
                    /\ storage'.list[1].message = sanitizeMessage(captured.message)
                    /\ storage'.list[1].context = sanitizeContext(captured.context)
       /\ \A q \in Slots :
             (/\ calls'[q].kind = "get"
              /\ calls'[q] # calls[q]
              /\ hasBackend
              /\ ~calls'[q].readFailed)
             => calls'[q].returned = <<storage.list>>]_vars

\* the second record was logged alone with a maximum of 1 and replaced the
\* first, and getStoredExceptions then returned it
C9_Witness ==
    \E p, q \in Slots :
        /\ calls[p].kind = "log"
        /\ calls[p].pc = "done"
        /\ ~calls[p].interleaved
        /\ ~calls[p].readFailed
        /\ ~calls[p].writeFailed
        /\ calls[p].exception[1].id = 2
        /\ maxStoredExceptions = 1
        /\ Len(storage.list) = 1
        /\ storage.list[1].id = 2
        /\ calls[q].kind = "get"
        /\ calls[q].returned = <<storage.list>>

\* C10: logException, getStoredExceptions and clearStoredExceptions never
\* reject, also when the backend read or write throws; getStoredExceptions
\* then returns an empty list; and no step of logException changes the
\* store's exceptions, lastError or errorCount.
C10_PersistenceSwallowed ==
    [][\A p \in Slots :
          /\ calls'[p].logOutcome # "rejected"
          /\ calls'[p].kind \in {"get", "clear"} => calls'[p].outcome = "resolved"
          /\ (calls'[p].kind = "get" /\ calls'[p].readFailed)
                => calls'[p].returned = <<<<>>>>
          /\ (calls[p].pc \in {"log_read", "log_write"}
                /\ calls'[p].pc # calls[p].pc)
                => UNCHANGED <<exceptions, lastError, errorCount>>]_vars

\* with a record in the store, a pipeline's write threw and was swallowed and
\* a getStoredExceptions whose read threw returned nothing
C10_Witness ==
    \E p, q \in Slots :
        /\ calls[p].kind = "handle"
        /\ calls[p].writeFailed
        /\ calls[p].logOutcome = "resolved"
        /\ Len(exceptions) > 0
        /\ lastError # <<>>
        /\ calls[q].kind = "get"
        /\ calls[q].readFailed
        /\ calls[q].returned = <<<<>>>>

\* the ids of the records of a list
Ids(list) == {list[i].id : i \in 1..Len(list)}

\* C11: two logException calls on one logger interleave at their read and
\* write without locking.  When call p writes after call q has completed, q
\* took a step while p was in progress and the list p read does not hold q's
\* record (p read before q wrote, so both read before either wrote), and no
\* read or write failed, then p's write leaves the blob equal to the list p
\* read with only p's record put first: q's record, persisted until then, is
\* gone although both calls resolve without a diagnostic.
C11_LostUpdate ==
    [][\A p, q \in Slots :
          (/\ p # q
           /\ hasBackend
           /\ calls[p].kind = "log"
           /\ calls[p].pc = "log_write"
           /\ calls'[p].pc = "done"
           /\ calls[p].interleaved
           /\ ~calls[p].readFailed
           /\ ~calls'[p].writeFailed
           /\ calls[q].kind = "log"
           /\ calls[q].pc = "done"
           /\ ~calls[q].readFailed
           /\ ~calls[q].writeFailed
           /\ calls[q].exception[1].id \notin Ids(calls[p].existing))
          => LET own == JsonRecord(sanitizeException(calls[p].exception[1]))
                 whole == <<own>> \o calls[p].existing
             IN  /\ calls[q].exception[1].id \in Ids(storage.list)
                 /\ storage'.list
                       = SubSeq(whole, 1, Min(Len(whole), maxStoredExceptions))
                 /\ calls[q].exception[1].id \notin Ids(storage'.list)
                 /\ calls'[p].outcome = "resolved"
                 /\ calls'[q].outcome = "resolved"
                 /\ calls'[p].diagnostics = 0
                 /\ calls'[q].diagnostics = 0]_vars

\* both calls completed without any failure under the default maximum; the
\* earlier writer wrote its record, and the blob holds the later writer's only
C11_Witness ==
    \E p, q \in Slots :
        /\ p # q
        /\ hasBackend
        /\ maxStoredExceptions = 100
        /\ calls[p].kind = "log" /\ calls[p].pc = "done"
        /\ calls[q].kind = "log" /\ calls[q].pc = "done"
        /\ ~calls[p].readFailed /\ ~calls[p].writeFailed
        /\ ~calls[q].readFailed /\ ~calls[q].writeFailed
        /\ calls[p].diagnostics = 0 /\ calls[q].diagnostics = 0
        /\ Ids(calls[q].existing) = {calls[q].exception[1].id}
        /\ Ids(storage.list) = {calls[p].exception[1].id}

\* C12: a clearExceptions step (the one step that resets the additions made
\* since the last clear) leaves the list empty and lastError null and does not
\* change errorCount, whatever the state it is taken in; errorCount never
\* decreases in any step and is never below the number of records held.
C12_ClearKeepsCount ==
    [][/\ (addsSinceClear > 0 /\ addsSinceClear' = 0)
             => /\ exceptions' = <<>>
                /\ lastError' = <<>>
                /\ errorCount' = errorCount
       /\ errorCount' >= errorCount
       /\ errorCount' >= Len(exceptions')]_vars

\* after a clear of a full store the counter exceeds the number of records held
C12_Witness ==
    /\ exceptions = <<>>
    /\ lastError = <<>>
    /\ addsSinceClear = 0
    /\ errorCount > 100

\* C13: a step that is markAsHandled(id) or markAsReported(id) keeps the
\* length of the list and the position of every record and leaves every
\* record with another id as it was; when no record has the id (never added,
\* evicted or cleared) the list is unchanged; a record with the id differs
\* from before only in the corresponding flag, which is true.
C13_MarkFrame ==
    [][\A id \in MarkIds :
          (markAsHandled(id) \/ markAsReported(id)) =>
             /\ Len(exceptions') = Len(exceptions)
             /\ \A i \in 1..Len(exceptions) :
                   /\ exceptions'[i].id = exceptions[i].id
                   /\ exceptions[i].id # id => exceptions'[i] = exceptions[i]
                   /\ (exceptions[i].id = id /\ markAsHandled(id))
                         => exceptions'[i] = [exceptions[i] EXCEPT !.handled = TRUE]
                   /\ (exceptions[i].id = id /\ markAsReported(id))
                         => exceptions'[i] = [exceptions[i] EXCEPT !.reported = TRUE]
             /\ id \notin Ids(exceptions) => exceptions' = exceptions]_vars

\* the first record has been evicted; of the hundred records held only the
\* oldest is handled and only the newest is reported
C13_Witness ==
    /\ Len(exceptions) = 100
    /\ exceptions[1].id = 101
    /\ exceptions[100].id = 2
    /\ \A i \in 1..100 :
          /\ exceptions[i].handled = (i = 100)
          /\ exceptions[i].reported = (i = 1)

\* C14: within one handleException call the record is in the store from the
\* start (unless the store was cleared since); the reporter has been invoked
\* only after logException settled, and once the call is past that point it
\* has been invoked exactly when the record is reportable (severity fatal or
\* error, category not validation); a record still in the store has
\* handled = true exactly when the call has completed, which is after the
\* persistence step and, for a reportable record, the reporter settled.
C14_PipelineOrder ==
    \A p \in Slots :
        calls[p].kind = "handle" =>
            LET c == calls[p]
                e == c.exception[1]
            IN  /\ e.id <= errorCount
                /\ addsSinceClear > nextId - 1 - e.id => Held(c) # {}
                /\ c.seen # <<>> =>
                      /\ c.logOutcome = "resolved"
                      /\ c.pc \in {"report_wait", "reported", "done"}
                /\ c.pc \in {"report_wait", "reported", "done"} =>
                      /\ c.shouldReport = <<c.seen # <<>>>>
                      /\ c.shouldReport = <<e.severity \in {"fatal", "error"}
                                               /\ e.category # "validation">>
                /\ \A i \in Held(c) : exceptions[i].handled = (c.pc = "done")
                /\ c.pc = "done" =>
                      /\ c.logOutcome = "resolved"
                      /\ c.shouldReport = <<TRUE>> => c.reportOutcome = "resolved"

\* a call completed after its record was persisted and the transport answered
\* its report; the record is in the store, handled
C14_Witness ==
    \E p \in Slots :
        /\ calls[p].kind = "handle"
        /\ calls[p].pc = "done"
        /\ ~calls[p].writeFailed
        /\ calls[p].shouldReport = <<TRUE>>
        /\ calls[p].response = "ok"
        /\ Held(calls[p]) # {}
        /\ \A i \in Held(calls[p]) : exceptions[i].handled
        /\ calls[p].exception[1].id \in Ids(storage.list)

\* C15: no failure of the storage backend, the console sink or the network
\* transport makes a handleException call reject: neither the persistence
\* step nor the reporter step nor the call itself ever has a rejected
\* outcome, and a call that has ended has resolved.  The promise that
\* handleStorageError, handleFatalError and the error boundary leave
\* unobserved is therefore never a rejected one.
C15_PipelineNeverRejects ==
    \A p \in Slots :
        calls[p].kind = "handle" =>
            /\ calls[p].logOutcome # "rejected"
            /\ calls[p].reportOutcome # "rejected"
            /\ calls[p].outcome # "rejected"
            /\ calls[p].pc = "done" => calls[p].outcome = "resolved"

\* a call resolved although its backend read and write threw and the
\* transport rejected its request
C15_Witness ==
    \E p \in Slots :
        /\ calls[p].kind = "handle"
        /\ calls[p].pc = "done"
        /\ calls[p].readFailed
        /\ calls[p].writeFailed
        /\ calls[p].response = "rejects"
        /\ calls[p].outcome = "resolved"

\* C16: in every reachable state the configured maximum is at least 1 and a
\* blob written by the logger is a list no longer than the maximum configured
\* at that moment, also right after setMaxStoredExceptions has lowered the
\* maximum below the number of records persisted.  (That a write puts the
\* newest record first is C9.)
C16_BlobWithinMaximum ==
    /\ maxStoredExceptions >= 1
    /\ storage.kind = "json" => Len(storage.list) <= maxStoredExceptions

\* C17: what a reportException call hands to the console sink and to the
\* network transport carries the id, message, severity, category, timestamp
\* (as JSON text in the request body) and context of the record it was
\* given, and, for a record that has a stack, a stack-trace field equal to
\* the stack createException captured.
C17_PayloadCarriesRecord ==
    \A p \in Slots :
        calls[p].kind = "report" =>
            LET e == calls[p].exception[1]
            IN  /\ \A i \in 1..Len(calls[p].console) :
                      LET out == calls[p].console[i]
                      IN  /\ out.label = <<e.severity, e.category>>
                          /\ out.message = e.message
                          /\ out.payload.id = e.id
                          /\ out.payload.timestamp = e.timestamp
                          /\ out.payload.context = e.context
                          /\ e.stack # NoStack => out.payload.stack = e.stack
                /\ \A i \in 1..Len(calls[p].requests) :
                      LET body == calls[p].requests[i].body
                      IN  /\ body.id = e.id
                          /\ body.message = e.message
                          /\ body.severity = e.severity
                          /\ body.category = e.category
                          /\ body.timestamp = JsonRecord(e).timestamp
                          /\ body.context = e.context
                          /\ e.stack # NoStack => body.stackTrace = e.stack

\* C18: a step that changes the handled or the reported flag of a record of
\* the list (a markAsHandled or markAsReported step) leaves lastError and
\* errorCount unchanged; lastError therefore always carries handled = false
\* and reported = false, also after the handleException call that captured
\* it has completed and the record with its id in the list is handled.
C18_MarksKeepLastError ==
    [][/\ (\E i \in 1..Len(exceptions) :
              /\ i <= Len(exceptions')
              /\ exceptions'[i].id = exceptions[i].id
              /\ \/ exceptions'[i].handled # exceptions[i].handled
                 \/ exceptions'[i].reported # exceptions[i].reported)
          => UNCHANGED <<lastError, errorCount>>
       /\ lastError' # <<>> =>
             /\ ~lastError'[1].handled
             /\ ~lastError'[1].reported]_vars

\* the call that captured lastError has completed: the record in the list is
\* handled, lastError with the same id is not
C18_Witness ==
    \E p \in Slots :
        /\ calls[p].kind = "handle"
        /\ calls[p].pc = "done"
        /\ lastError # <<>>
        /\ lastError[1].id = calls[p].exception[1].id
        /\ ~lastError[1].handled
        /\ Held(calls[p]) # {}
        /\ \A i \in Held(calls[p]) : exceptions[i].handled

\* C19: the write of a logException call that no other persistence call
\* interleaved with keeps every record persisted until then, one place
\* further down, unless that place is beyond the configured maximum; also
\* when the call's backend read failed and its write succeeds.
C19_LogKeepsHistory ==
    [][\A p \in Slots :
          (/\ calls[p].pc = "log_write"
           /\ calls'[p].pc # "log_write"
           /\ hasBackend
           /\ storage.kind = "json"
           /\ ~calls[p].interleaved
           /\ ~calls'[p].writeFailed)
          => \A i \in 1..Len(storage.list) :
                i + 1 <= maxStoredExceptions =>
                   /\ i + 1 <= Len(storage'.list)
                   /\ storage'.list[i + 1] = storage.list[i]]_vars

====
